---- MODULE Spec2Model ----
(***************************************************************************)
(* A model of demopr.py: the lower_snake_case classifier, the four rule    *)
(* passes of CodeReviewer over a syntax tree and the raw text, run_checks, *)
(* review_file and main.                                                   *)
(*                                                                         *)
(* Python strings are TLA+ strings (Len, SubSeq and \o act on them), so    *)
(* substring tests, the regular expression, splitlines/join and the        *)
(* f-string messages are computed on the actual characters.                *)
(* Syntax-tree nodes are records with a "type" field and the fields of the *)
(* ast class of that name; hasattr(x, "f") is "f" \in DOMAIN x.            *)
(***************************************************************************)
EXTENDS Naturals, Sequences, FiniteSets, TLC

VARIABLES
    argv,        \* sys.argv[1:]: the files of the batch, in argument order
    pc,          \* position of the program
    i,           \* index in argv of the file the for loop of main is at
    code,        \* reviewer.code
    tree,        \* reviewer.tree
    issues,      \* reviewer.issues
    results,     \* the values run_checks has returned on this reviewer
    stdout,      \* the lines printed so far
    all_passed,  \* main's flag
    status,      \* exit status of the process, "running" until it ends
    name_in,     \* argument of is_snake_case (classifier specification)
    verdict      \* its result, "unset" until computed

vars == <<argv, pc, i, code, tree, issues, results, stdout, all_passed,
          status, name_in, verdict>>

\* ------------------------------------------------------------ bounds

MaxBody == 2
MaxLines == 3
MaxFiles == 3
MaxCalls == 2
MaxLen == 3

\* ------------------------------------------------------------ strings

RECURSIVE Concat(_)
\* the parts appended one after the other
Concat(ss) == IF ss = <<>> THEN <<>> ELSE Head(ss) \o Concat(Tail(ss))

RECURSIVE Join(_, _)
\* sep.join(parts)
Join(sep, parts) ==
    IF parts = <<>> THEN ""
    ELSE IF Len(parts) = 1 THEN parts[1]
    ELSE parts[1] \o sep \o Join(sep, Tail(parts))

CharAt(s, p) == SubSeq(s, p, p)

\* needle in haystack
Contains(haystack, needle) ==
    \E p \in 1..(Len(haystack) + 1 - Len(needle)) :
        SubSeq(haystack, p, p + Len(needle) - 1) = needle

StartsWith(s, prefix) ==
    Len(prefix) <= Len(s) /\ SubSeq(s, 1, Len(prefix)) = prefix

RECURSIVE SplitFrom(_, _)
SplitFrom(s, from) ==
    IF from > Len(s) THEN <<>>
    ELSE LET nl == {p \in from..Len(s) : CharAt(s, p) = "\n"}
         IN IF nl = {} THEN <<SubSeq(s, from, Len(s))>>
            ELSE LET q == CHOOSE p \in nl : \A r \in nl : p <= r
                 IN <<SubSeq(s, from, q - 1)>> \o SplitFrom(s, q + 1)

\* str.splitlines() for text whose only line boundary is "\n": no empty
\* last line after a final newline.
splitlines(s) == SplitFrom(s, 1)

\* ------------------------------------------------------------ classifier

LowerChars == {CharAt("abcdefghijklmnopqrstuvwxyz", p) : p \in 1..26}
DigitChars == {CharAt("0123456789", p) : p \in 1..10}

\* "$" without re.MULTILINE: at the end of the string, or just before a
\* newline that is the last character.
AtDollar(s, k) ==
    \/ k = Len(s)
    \/ k + 1 = Len(s) /\ CharAt(s, Len(s)) = "\n"

\* snake_case_pattern.match(name): ^[a-z_][a-z0-9_]*$ anchored at the start;
\* k is the number of characters the pattern consumes.
PatternMatch(s) ==
    \E k \in 1..Len(s) :
        /\ CharAt(s, 1) \in LowerChars \cup {"_"}
        /\ \A j \in 2..k : CharAt(s, j) \in LowerChars \cup DigitChars \cup {"_"}
        /\ AtDollar(s, k)

is_snake_case(name) == PatternMatch(name)

\* ------------------------------------------------------------ syntax tree

Name(id) == [type |-> "Name", id |-> id]
Attribute(value, attr) == [type |-> "Attribute", value |-> value, attr |-> attr]
Constant == [type |-> "Constant"]
Pass == [type |-> "Pass"]
Call(func, args) == [type |-> "Call", func |-> func, args |-> args]
TupleNode(elts) == [type |-> "Tuple", elts |-> elts]
ListNode(elts) == [type |-> "List", elts |-> elts]
Assign(targets, value) == [type |-> "Assign", targets |-> targets, value |-> value]
Expr(value) == [type |-> "Expr", value |-> value]
Return(value) == [type |-> "Return", value |-> value]
If(test, body) == [type |-> "If", test |-> test, body |-> body]
ExceptHandler(body) == [type |-> "ExceptHandler", body |-> body]
Try(body, handlers, finalbody) ==
    [type |-> "Try", body |-> body, handlers |-> handlers, finalbody |-> finalbody]
ImportFrom == [type |-> "ImportFrom"]
Arguments(defaults) == [type |-> "arguments", defaults |-> defaults]
FunctionDef(name, args, body, decorator_list, lineno, end_lineno) ==
    [type |-> "FunctionDef", name |-> name, args |-> args, body |-> body,
     decorator_list |-> decorator_list, lineno |-> lineno,
     end_lineno |-> end_lineno]
Module(body) == [type |-> "Module", body |-> body]
NoTree == [type |-> "NoTree"]

\* ast.iter_child_nodes(node): the node-valued fields in _fields order.
Children(n) ==
    CASE n.type = "Module" -> n.body
      [] n.type = "FunctionDef" -> <<n.args>> \o n.body \o n.decorator_list
      [] n.type = "arguments" -> n.defaults
      [] n.type = "Assign" -> n.targets \o <<n.value>>
      [] n.type = "Expr" -> <<n.value>>
      [] n.type = "Return" -> <<n.value>>
      [] n.type = "If" -> <<n.test>> \o n.body
      [] n.type = "Try" -> n.body \o n.handlers \o n.finalbody
      [] n.type = "ExceptHandler" -> n.body
      [] n.type = "Call" -> <<n.func>> \o n.args
      [] n.type = "Attribute" -> <<n.value>>
      [] n.type = "Tuple" -> n.elts
      [] n.type = "List" -> n.elts
      [] OTHER -> <<>>

RECURSIVE WalkQueue(_)
WalkQueue(todo) ==
    IF todo = <<>> THEN <<>>
    ELSE <<Head(todo)>> \o WalkQueue(Tail(todo) \o Children(Head(todo)))

\* ast.walk(node): the node and its descendants, breadth first.
Walk(node) == WalkQueue(<<node>>)

RECURSIVE WalkAll(_)
WalkAll(nodes) ==
    IF nodes = <<>> THEN <<>> ELSE Walk(Head(nodes)) \o WalkAll(Tail(nodes))

IsFunctionDef(n) == n.type = "FunctionDef"
IsAssign(n) == n.type = "Assign"

\* ------------------------------------------------------------ messages
\* The f-strings of the four passes. The back quote that surrounds the name
\* in the source is written as a single quote: a TLA+ string cannot hold one.

FunctionNameMsg(name) == "Function name '" \o name \o "' must be lower_snake_case."
VariableNameMsg(name) == "Variable name '" \o name \o "' must be lower_snake_case."
MissingTryMsg(name) == "Endpoint '" \o name \o "' missing try/except block."
JsonMsg(name) == "Endpoint '" \o name \o "' must return a JSON response."
ValidationMsg(name) == "Endpoint '" \o name \o "' must have a validation check at the top."
CloseMsg(name) == "Function '" \o name \o "' must close DB sessions in a finally block."
RollbackMsg(name) ==
    "Function '" \o name \o "' does DB writes but is missing rollback in except block."

\* ------------------------------------------------------------ rule passes

\* check_function_names: the issues one FunctionDef adds
FunctionNameIssue(node) ==
    IF ~is_snake_case(node.name) THEN <<FunctionNameMsg(node.name)>> ELSE <<>>

FunctionNameIssues(t) ==
    LET defs == SelectSeq(Walk(t), IsFunctionDef)
    IN Concat([k \in 1..Len(defs) |-> FunctionNameIssue(defs[k])])

\* check_variable_names: the issues one target of an Assign adds
TargetIssueDeep(target) ==
    LET inside == Walk(target)
    IN Concat([k \in 1..Len(inside) |->
                IF inside[k].type = "Name" /\ ~is_snake_case(inside[k].id)
                THEN <<VariableNameMsg(inside[k].id)>> ELSE <<>>])

TargetIssue(target) ==
    IF target.type = "Name" /\ ~is_snake_case(target.id)
    THEN <<VariableNameMsg(target.id)>> ELSE <<>>

AssignIssues(node) ==
    Concat([k \in 1..Len(node.targets) |-> TargetIssue(node.targets[k])])

VariableNameIssues(t) ==
    LET assigns == SelectSeq(Walk(t), IsAssign)
    IN Concat([k \in 1..Len(assigns) |-> AssignIssues(assigns[k])])

\* has_route of check_endpoint_rules
HasRouteAnyCallee(node) ==
    \E k \in 1..Len(node.decorator_list) :
        LET dec == node.decorator_list[k]
        IN /\ dec.type = "Call"
           /\ \/ "attr" \in DOMAIN dec.func /\ dec.func.attr = "route"
              \/ "id" \in DOMAIN dec.func /\ dec.func.id = "route"

HasRoute(node) ==
    \E k \in 1..Len(node.decorator_list) :
        LET dec == node.decorator_list[k]
        IN /\ dec.type = "Call"
           /\ "attr" \in DOMAIN dec.func
           /\ dec.func.attr = "route"

HasTry(node) == \E k \in 1..Len(Walk(node)) : Walk(node)[k].type = "Try"

IsJsonCall(n) ==
    /\ n.type = "Call"
    /\ "id" \in DOMAIN n.func
    /\ n.func.id \in {"json", "jsonify"}

HasJsonReturnBodyOnly(node) ==
    \E k \in 1..Len(WalkAll(node.body)) : IsJsonCall(WalkAll(node.body)[k])

HasJsonReturn(node) == \E k \in 1..Len(Walk(node)) : IsJsonCall(Walk(node)[k])

\* first_stmt = node.body[0] if node.body else None;
\* first_stmt and not isinstance(first_stmt, ast.If)
MissingValidationNoneCounts(node) ==
    \/ node.body = <<>>
    \/ node.body[1].type # "If"

MissingValidation(node) ==
    /\ node.body # <<>>
    /\ node.body[1].type # "If"

EndpointIssue(node) ==
    IF HasRoute(node)
    THEN (IF ~HasTry(node) THEN <<MissingTryMsg(node.name)>> ELSE <<>>)
         \o (IF ~HasJsonReturn(node) THEN <<JsonMsg(node.name)>> ELSE <<>>)
         \o (IF MissingValidation(node) THEN <<ValidationMsg(node.name)>> ELSE <<>>)
    ELSE <<>>

EndpointIssues(t) ==
    LET defs == SelectSeq(Walk(t), IsFunctionDef)
    IN Concat([k \in 1..Len(defs) |-> EndpointIssue(defs[k])])

\* "\n".join(code_lines[node.lineno - 1 : node.end_lineno])
FuncCode(code_lines, node) ==
    Join("\n", SubSeq(code_lines, node.lineno,
                      IF node.end_lineno < Len(code_lines)
                      THEN node.end_lineno ELSE Len(code_lines)))

Acquires(func_code) ==
    Contains(func_code, "getDbSession") \/ Contains(func_code, "create_dbsession_pg")

MissingCloseBoth(func_code) ==
    ~Contains(func_code, "finally") /\ ~Contains(func_code, ".close()")

MissingClose(func_code) ==
    ~Contains(func_code, "finally") \/ ~Contains(func_code, ".close()")

DoesWrites(func_code) ==
    \E keyword \in {"add", "update", "insert"} : Contains(func_code, keyword)

MissingRollback(func_code) ==
    ~Contains(func_code, "except") \/ ~Contains(func_code, ".rollback()")

DbSessionIssue(name, func_code) ==
    IF Acquires(func_code)
    THEN (IF MissingClose(func_code) THEN <<CloseMsg(name)>> ELSE <<>>)
         \o (IF DoesWrites(func_code) /\ MissingRollback(func_code)
             THEN <<RollbackMsg(name)>> ELSE <<>>)
    ELSE <<>>

DbSessionIssues(t, text) ==
    LET code_lines == splitlines(text)
       defs == SelectSeq(Walk(t), IsFunctionDef)
    IN Concat([k \in 1..Len(defs) |->
                DbSessionIssue(defs[k].name, FuncCode(code_lines, defs[k]))])

\* ------------------------------------------------------------ source files
\* A file is described by the statements it is written from; Source gives its
\* text and Ast the tree ast.parse builds from that text, so the tree and
\* the raw text the passes see belong to the same file.

Line(text, node) == [src |-> <<text>>, nodes |-> <<node>>]

SessionCall(f) == Call(Name(f), <<>>)
MethodCall(obj, m, args) == Call(Attribute(Name(obj), m), args)
TryFinally(final) == Try(<<Pass>>, <<>>, <<final>>)
TryExcept(handler) == Try(<<Pass>>, <<ExceptHandler(<<handler>>)>>, <<>>)

\* One statement of a function body, written at line `at`, indented once.
Stmt(id, at) ==
    CASE id = "assign" ->
            Line("    x = 1", Assign(<<Name("x")>>, Constant))
      [] id = "assign_bad" ->
            Line("    BadVar = 1", Assign(<<Name("BadVar")>>, Constant))
      [] id = "assign_tuple" ->
            Line("    (A, [B, c]) = (1, [2, 3])",
                 Assign(<<TupleNode(<<Name("A"), ListNode(<<Name("B"), Name("c")>>)>>)>>,
                        TupleNode(<<Constant, ListNode(<<Constant, Constant>>)>>)))
      [] id = "assign_chain" ->
            Line("    Total = BadVar = 0",
                 Assign(<<Name("Total"), Name("BadVar")>>, Constant))
      [] id = "assign_attr" ->
            Line("    self.Value = 1",
                 Assign(<<Attribute(Name("self"), "Value")>>, Constant))
      [] id = "if_json" ->
            [src |-> <<"    if x:", "        return jsonify(err)">>,
             nodes |-> <<If(Name("x"),
                            <<Return(Call(Name("jsonify"), <<Name("err")>>))>>)>>]
      [] id = "if_plain" ->
            [src |-> <<"    if True:", "        Flag = 1">>,
             nodes |-> <<If(Constant, <<Assign(<<Name("Flag")>>, Constant)>>)>>]
      [] id = "try" ->
            [src |-> <<"    try:", "        x = run()", "    except Exception:",
                       "        pass">>,
             nodes |-> <<Try(<<Assign(<<Name("x")>>, SessionCall("run"))>>,
                             <<ExceptHandler(<<Pass>>)>>, <<>>)>>]
      [] id = "return_attr_json" ->
            Line("    return flask.jsonify(x)",
                 Return(MethodCall("flask", "jsonify", <<Name("x")>>)))
      [] id = "get_session" ->
            Line("    s = getDbSession()",
                 Assign(<<Name("s")>>, SessionCall("getDbSession")))
      [] id = "nested_def" ->
            [src |-> <<"    def Inner():", "        BadVar = 1">>,
             nodes |-> <<FunctionDef("Inner", Arguments(<<>>),
                                     <<Assign(<<Name("BadVar")>>, Constant)>>,
                                     <<>>, at, at + 1)>>]
      [] id = "create_session" ->
            Line("    s = create_dbsession_pg()",
                 Assign(<<Name("s")>>, SessionCall("create_dbsession_pg")))
      [] id = "insert" ->
            Line("    s.insert(row)", Expr(MethodCall("s", "insert", <<Name("row")>>)))
      [] id = "update_stats" ->
            Line("    update_stats()", Expr(SessionCall("update_stats")))
      [] id = "comment_padding" ->
            [src |-> <<"    # padding">>, nodes |-> <<>>]
      [] id = "close" ->
            Line("    s.close()", Expr(MethodCall("s", "close", <<>>)))
      [] id = "rollback" ->
            Line("    s.rollback()", Expr(MethodCall("s", "rollback", <<>>)))
      [] id = "try_finally_close" ->
            [src |-> <<"    try:", "        pass", "    finally:", "        s.close()">>,
             nodes |-> <<TryFinally(Expr(MethodCall("s", "close", <<>>)))>>]
      [] id = "try_finally" ->
            [src |-> <<"    try:", "        pass", "    finally:", "        pass">>,
             nodes |-> <<TryFinally(Pass)>>]
      [] id = "try_except_rollback" ->
            [src |-> <<"    try:", "        pass", "    except Exception:",
                       "        s.rollback()">>,
             nodes |-> <<TryExcept(Expr(MethodCall("s", "rollback", <<>>)))>>]
      [] id = "try_except" ->
            [src |-> <<"    try:", "        pass", "    except Exception:",
                       "        pass">>,
             nodes |-> <<TryExcept(Pass)>>]
      [] id = "inner_session" ->
            [src |-> <<"    def inner():", "        return getDbSession()">>,
             nodes |-> <<FunctionDef("inner", Arguments(<<>>),
                                     <<Return(SessionCall("getDbSession"))>>,
                                     <<>>, at, at + 1)>>]

RouteCall(args) == Call(Attribute(Name("app"), "route"), args)

\* The decorator lines and the parameter list of a function definition.
Header(h) ==
    CASE h = "plain" ->
            [src |-> <<>>, decorator_list |-> <<>>, params |-> "", defaults |-> <<>>]
      [] h = "route" ->
            [src |-> <<"@app.route('/x')">>,
             decorator_list |-> <<RouteCall(<<Constant>>)>>,
             params |-> "", defaults |-> <<>>]
      [] h = "route_name" ->
            [src |-> <<"@route('/x')">>,
             decorator_list |-> <<Call(Name("route"), <<Constant>>)>>,
             params |-> "", defaults |-> <<>>]
      [] h = "route_bare" ->
            [src |-> <<"@app.route">>,
             decorator_list |-> <<Attribute(Name("app"), "route")>>,
             params |-> "", defaults |-> <<>>]
      [] h = "route_json_arg" ->
            [src |-> <<"@app.route('/x', json())">>,
             decorator_list |-> <<RouteCall(<<Constant, Call(Name("json"), <<>>)>>)>>,
             params |-> "", defaults |-> <<>>]
      [] h = "login_route" ->
            [src |-> <<"@login_required", "@app.route('/x')">>,
             decorator_list |-> <<Name("login_required"), RouteCall(<<Constant>>)>>,
             params |-> "", defaults |-> <<>>]
      [] h = "route_default_json" ->
            [src |-> <<"@app.route('/x')">>,
             decorator_list |-> <<RouteCall(<<Constant>>)>>,
             params |-> "fmt=jsonify(0)",
             defaults |-> <<Call(Name("jsonify"), <<Constant>>)>>]

\* The module-level statements before the function.
Prologue(p) ==
    CASE p = "none" -> [src |-> <<>>, nodes |-> <<>>]
      [] p = "import_session" ->
            [src |-> <<"from db import getDbSession">>, nodes |-> <<ImportFrom>>]
      [] p = "config" ->
            [src |-> <<"Config = load()">>,
             nodes |-> <<Assign(<<Name("Config")>>, SessionCall("load"))>>]

RECURSIVE BodyFrom(_, _)
\* the statements of a body, the first written at line `at`
BodyFrom(ids, at) ==
    IF ids = <<>> THEN <<>>
    ELSE LET st == Stmt(Head(ids), at)
         IN <<st>> \o BodyFrom(Tail(ids), at + Len(st.src))

RECURSIVE BodySrc(_)
BodySrc(stmts) == IF stmts = <<>> THEN <<>> ELSE Head(stmts).src \o BodySrc(Tail(stmts))

RECURSIVE BodyNodes(_)
BodyNodes(stmts) ==
    IF stmts = <<>> THEN <<>> ELSE Head(stmts).nodes \o BodyNodes(Tail(stmts))

RECURSIVE LastStmtEnd(_, _)
\* the last line of the last statement: a comment is no statement, so a
\* comment that ends a body lies after the function's end_lineno
LastStmtEnd(stmts, at) ==
    IF stmts = <<>> THEN at - 1
    ELSE LET rest == LastStmtEnd(Tail(stmts), at + Len(Head(stmts).src))
         IN IF rest >= at + Len(Head(stmts).src) THEN rest
            ELSE IF Head(stmts).nodes # <<>> THEN at + Len(Head(stmts).src) - 1
            ELSE at - 1

File(path, pro, hasfn, name, header, body) ==
    [path |-> path, wellformed |-> TRUE, pro |-> pro, hasfn |-> hasfn,
     name |-> name, header |-> header, body |-> body]

BrokenFile(path) ==
    [path |-> path, wellformed |-> FALSE, pro |-> "none", hasfn |-> FALSE,
     name |-> "", header |-> "plain", body |-> <<>>]

DefLine(d) == Len(Prologue(d.pro).src) + Len(Header(d.header).src) + 1

SourceLines(d) ==
    IF ~d.wellformed THEN <<"def broken(:">>
    ELSE Prologue(d.pro).src
         \o (IF d.hasfn
             THEN Header(d.header).src
                  \o <<"def " \o d.name \o "(" \o Header(d.header).params \o "):">>
                  \o BodySrc(BodyFrom(d.body, DefLine(d) + 1))
             ELSE <<>>)

\* filepath.read_text()
Source(d) == Join("\n", SourceLines(d)) \o "\n"

\* The grammar wants at least one statement in a function body.
Parses(d) ==
    d.wellformed /\ (d.hasfn => BodyNodes(BodyFrom(d.body, DefLine(d) + 1)) # <<>>)

\* The tree of the file.
Ast(d) ==
    LET stmts == BodyFrom(d.body, DefLine(d) + 1)
    IN Module(Prologue(d.pro).nodes
              \o (IF d.hasfn
                  THEN <<FunctionDef(d.name, Arguments(Header(d.header).defaults),
                                     BodyNodes(stmts), Header(d.header).decorator_list,
                                     DefLine(d), LastStmtEnd(stmts, DefLine(d) + 1))>>
                  ELSE <<>>))

\* ast.parse(code): the tree, or a SyntaxError
ast_parse_lenient(d) == [ok |-> TRUE, tree |-> IF Parses(d) THEN Ast(d) ELSE Module(<<>>)]

ast_parse(d) == IF Parses(d) THEN [ok |-> TRUE, tree |-> Ast(d)]
                ELSE [ok |-> FALSE, tree |-> NoTree]

RECURSIVE SeqsUpTo(_, _)
\* the sequences over S of length at most n
SeqsUpTo(S, n) ==
    IF n = 0 THEN {<<>>}
    ELSE LET shorter == SeqsUpTo(S, n - 1)
         IN shorter \cup {Append(q, x) : q \in shorter, x \in S}

\* ------------------------------------------------------------ inputs

\* The files of the batch specification.
CleanFile == File("clean.py", "import_session", FALSE, "", "plain", <<>>)
FooBarFile == File("foobar.py", "none", TRUE, "FooBar", "plain", <<"assign_bad">>)
ApiFile == File("api.py", "config", TRUE, "GetUser", "route", <<"get_session", "assign_bad">>)
BatchFiles == {CleanFile, FooBarFile, ApiFile, BrokenFile("broken.py")}

EndpointStmts ==
    {"assign", "assign_bad", "assign_tuple", "assign_chain", "assign_attr",
     "if_json", "if_plain", "try", "return_attr_json", "get_session", "nested_def"}

Headers ==
    {"plain", "route", "route_name", "route_bare", "route_json_arg", "login_route",
     "route_default_json"}

\* The trees of the endpoint and naming rules: every header, a valid and an
\* invalid name, every body of at most MaxBody statements. The body of no
\* statements is the tree that line 53 tests for; ast.parse builds none, a
\* tree handed to the reviewer can have one.
EndpointFiles ==
    {File("views.py", pro, TRUE, name, h, body) :
        pro \in {"none", "config"}, name \in {"get_user", "GetUser"},
        h \in Headers, body \in SeqsUpTo(EndpointStmts, MaxBody)}
    \cup {CleanFile}

LifecycleStmts ==
    {"get_session", "create_session", "insert", "update_stats", "comment_padding",
     "close", "rollback", "try_finally_close", "try_finally",
     "try_except_rollback", "try_except", "inner_session"}

\* The texts of the lifecycle rule: every body of at most MaxLines statements
\* that parses, with and without an import line that names getDbSession
\* outside the function.
LifecycleFiles ==
    {d \in {File("store.py", pro, TRUE, "load_rows", "plain", body) :
                pro \in {"none", "import_session"},
                body \in SeqsUpTo(LifecycleStmts, MaxLines)} : Parses(d)}

Alphabet == {"a", "B", "1", "_", " ", "\n"}

RECURSIVE StringsUpTo(_)
StringsUpTo(n) ==
    IF n = 0 THEN {""}
    ELSE LET shorter == StringsUpTo(n - 1)
         IN shorter \cup {st \o c : st \in shorter, c \in Alphabet}

ClassifierInputs == StringsUpTo(MaxLen) \cup {"foo_bar", "_x1", "FooBar", "fooBar"}

\* ------------------------------------------------------------ the program

NoReviewer ==
    /\ code = ""
    /\ tree = NoTree
    /\ issues = <<>>
    /\ results = <<>>

NoClassifier == name_in = "" /\ verdict = "unset"

NoBatch ==
    /\ argv = <<>>
    /\ i = 0
    /\ stdout = <<>>
    /\ all_passed = TRUE
    /\ status = "running"

\* python demopr.py <files>
Init ==
    /\ argv \in SeqsUpTo(BatchFiles, MaxFiles)
    /\ pc = "main"
    /\ i = 0
    /\ stdout = <<>>
    /\ all_passed = TRUE
    /\ status = "running"
    /\ NoReviewer
    /\ NoClassifier

\* CodeReviewer(code) with the tree of file d, about to run run_checks
Constructed(d) ==
    /\ code = Source(d)
    /\ tree = Ast(d)
    /\ issues = <<>>
    /\ results = <<>>
    /\ pc = "check_function_names"

InitEndpoint == (\E d \in EndpointFiles : Constructed(d)) /\ NoBatch /\ NoClassifier

InitLifecycle == (\E d \in LifecycleFiles : Constructed(d)) /\ NoBatch /\ NoClassifier

InitReuse ==
    (\E d \in EndpointFiles : Parses(d) /\ Constructed(d)) /\ NoBatch /\ NoClassifier

InitClassifier ==
    /\ name_in \in ClassifierInputs
    /\ verdict = "unset"
    /\ pc = "is_snake_case"
    /\ NoReviewer
    /\ NoBatch

batch == <<argv, i, stdout, all_passed, status>>
reviewer == <<code, tree, issues, results>>
classifier == <<name_in, verdict>>

UsageLine == "Usage: python code_reviewer.py <file1.py> [<file2.py> ...]"

\* main, lines 90-93
Main ==
    /\ pc = "main"
    /\ IF Len(argv) + 1 < 2
       THEN /\ stdout' = Append(stdout, UsageLine)
            /\ status' = 1
            /\ pc' = "exited"
            /\ UNCHANGED all_passed
       ELSE /\ all_passed' = TRUE
            /\ pc' = "for"
            /\ UNCHANGED <<stdout, status>>
    /\ UNCHANGED <<argv, i, reviewer, classifier>>

\* for file_arg in sys.argv[1:], line 94
ForNext ==
    /\ pc = "for"
    /\ IF i < Len(argv)
       THEN i' = i + 1 /\ pc' = "review_file"
       ELSE i' = i /\ pc' = "end"
    /\ UNCHANGED <<argv, stdout, all_passed, status, reviewer, classifier>>

\* review_file lines 77-78 and __init__: the text is read and parsed
ReviewFile ==
    /\ pc = "review_file"
    /\ ast_parse(argv[i]).ok
    /\ code' = Source(argv[i])
    /\ issues' = <<>>
    /\ results' = <<>>
    /\ tree' = ast_parse(argv[i]).tree
    /\ pc' = "check_function_names"
    /\ UNCHANGED <<batch, classifier>>

\* ast.parse raises SyntaxError in __init__; nothing catches it, and the
\* interpreter ends with a traceback and exit status 1.
ParseError ==
    /\ pc = "review_file"
    /\ ~ast_parse(argv[i]).ok
    /\ code' = Source(argv[i])
    /\ issues' = <<>>
    /\ tree' = NoTree
    /\ results' = <<>>
    /\ pc' = "crashed"
    /\ status' = 1
    /\ UNCHANGED <<argv, i, stdout, all_passed, classifier>>

\* run_checks: the pass after pass p
PassAfterSwapped(p) ==
    CASE p = "check_function_names" -> "check_endpoint_rules"
      [] p = "check_endpoint_rules" -> "check_variable_names"
      [] p = "check_variable_names" -> "check_db_session_rules"
      [] p = "check_db_session_rules" -> "return"

PassAfter(p) ==
    CASE p = "check_function_names" -> "check_variable_names"
      [] p = "check_variable_names" -> "check_endpoint_rules"
      [] p = "check_endpoint_rules" -> "check_db_session_rules"
      [] p = "check_db_session_rules" -> "return"

CheckFunctionNames ==
    /\ pc = "check_function_names"
    /\ issues' = issues \o FunctionNameIssues(tree)
    /\ pc' = PassAfter(pc)
    /\ UNCHANGED <<batch, code, tree, results, classifier>>

CheckVariableNames ==
    /\ pc = "check_variable_names"
    /\ issues' = issues \o VariableNameIssues(tree)
    /\ pc' = PassAfter(pc)
    /\ UNCHANGED <<batch, code, tree, results, classifier>>

CheckEndpointRules ==
    /\ pc = "check_endpoint_rules"
    /\ issues' = issues \o EndpointIssues(tree)
    /\ pc' = PassAfter(pc)
    /\ UNCHANGED <<batch, code, tree, results, classifier>>

CheckDbSessionRules ==
    /\ pc = "check_db_session_rules"
    /\ issues' = issues \o DbSessionIssues(tree, code)
    /\ pc' = PassAfter(pc)
    /\ UNCHANGED <<batch, code, tree, results, classifier>>

\* return self.issues
RunChecksReturn ==
    /\ pc = "return"
    /\ results' = Append(results, issues)
    /\ pc' = "returned"
    /\ UNCHANGED <<batch, code, tree, issues, classifier>>

\* what review_file prints for the issues run_checks returned
Report(filepath, found) ==
    IF found # <<>>
    THEN <<"Issues found in " \o filepath \o ":">>
         \o [k \in 1..Len(found) |-> "  " \o found[k]]
    ELSE <<filepath \o " passed all checks.">>

\* if not review_file(path): all_passed = False
LastFileDecides(flag, passed) == passed

AllPassedAfter(flag, passed) == IF ~passed THEN FALSE ELSE flag

\* review_file lines 80-87 and main lines 96-97
ReportFile ==
    /\ pc = "returned"
    /\ stdout' = stdout \o Report(argv[i].path, results[Len(results)])
    /\ all_passed' = AllPassedAfter(all_passed, results[Len(results)] = <<>>)
    /\ pc' = "for"
    /\ UNCHANGED <<argv, i, status, reviewer, classifier>>

\* main lines 98-99
Exit ==
    /\ pc = "end"
    /\ status' = IF ~all_passed THEN 1 ELSE 0
    /\ pc' = "exited"
    /\ UNCHANGED <<argv, i, stdout, all_passed, reviewer, classifier>>

\* a caller that holds the reviewer calls run_checks once more
RunChecksAgain ==
    /\ pc = "returned"
    /\ Len(results) < MaxCalls
    /\ pc' = "check_function_names"
    /\ UNCHANGED <<batch, reviewer, classifier>>

Classify ==
    /\ pc = "is_snake_case"
    /\ verdict' = is_snake_case(name_in)
    /\ pc' = "classified"
    /\ UNCHANGED <<name_in, batch, reviewer>>

RunChecks ==
    \/ CheckFunctionNames
    \/ CheckVariableNames
    \/ CheckEndpointRules
    \/ CheckDbSessionRules
    \/ RunChecksReturn

Next ==
    \/ Main
    \/ ForNext
    \/ ReviewFile
    \/ ParseError
    \/ RunChecks
    \/ ReportFile
    \/ Exit

Spec == Init /\ [][Next]_vars

SpecEndpoint == InitEndpoint /\ [][RunChecks]_vars

SpecLifecycle == InitLifecycle /\ [][RunChecks]_vars

SpecReuse == InitReuse /\ [][RunChecks \/ RunChecksAgain]_vars

SpecClassifier == InitClassifier /\ [][Classify]_vars

\* ------------------------------------------------------------ properties

Count(seq, x) == Cardinality({k \in 1..Len(seq) : seq[k] = x})

RECURSIVE Sum(_)
Sum(ns) == IF ns = <<>> THEN 0 ELSE Head(ns) + Sum(Tail(ns))

FunctionDefs(t) == SelectSeq(Walk(t), IsFunctionDef)

\* all four passes of the current run_checks call have run
RulesDone == pc \in {"return", "returned"}

\* the definition of an endpoint: a decorator that is a Call whose callee is
\* an attribute access named route
IsEndpointDef(node) ==
    \E k \in 1..Len(node.decorator_list) :
        /\ node.decorator_list[k].type = "Call"
        /\ node.decorator_list[k].func.type = "Attribute"
        /\ node.decorator_list[k].func.attr = "route"

IsPlainJsonCall(n) ==
    n.type = "Call" /\ n.func.type = "Name" /\ n.func.id \in {"json", "jsonify"}

JsonCallIn(nodes) == \E k \in 1..Len(nodes) : IsPlainJsonCall(nodes[k])

TryIn(nodes) == \E k \in 1..Len(nodes) : nodes[k].type = "Try"

\* ---- C1
SliceAcquires(text) ==
    Contains(text, "getDbSession") \/ Contains(text, "create_dbsession_pg")

SliceWrites(text) ==
    Contains(text, "add") \/ Contains(text, "update") \/ Contains(text, "insert")

NeedsClose(text) ==
    /\ SliceAcquires(text)
    /\ (~Contains(text, "finally") \/ ~Contains(text, ".close()"))

NeedsRollback(text) ==
    /\ SliceAcquires(text)
    /\ SliceWrites(text)
    /\ (~Contains(text, "except") \/ ~Contains(text, ".rollback()"))

\* the raw-text slices of the FunctionDef nodes, in walk order
Slices ==
    LET code_lines == splitlines(code)
        defs == FunctionDefs(tree)
    IN [k \in 1..Len(defs) |-> FuncCode(code_lines, defs[k])]

\* C1: once the passes have run, every FunctionDef has the missing-close
\* issue (one per function of its name) iff its slice names getDbSession or
\* create_dbsession_pg and lacks "finally" or ".close()", and the
\* missing-rollback issue iff the slice names one of them, contains add,
\* update or insert, and lacks "except" or ".rollback()"; a slice that names
\* neither has no lifecycle issue, and no other lifecycle issue exists.
C1_LifecycleDecisionTable ==
    RulesDone =>
        LET defs == FunctionDefs(tree)
            text == Slices
            close == {k \in 1..Len(defs) : NeedsClose(text[k])}
            rollback == {k \in 1..Len(defs) : NeedsRollback(text[k])}
        IN /\ \A k \in 1..Len(defs) :
                /\ Count(issues, CloseMsg(defs[k].name)) =
                     Cardinality({j \in close : defs[j].name = defs[k].name})
                /\ Count(issues, RollbackMsg(defs[k].name)) =
                     Cardinality({j \in rollback : defs[j].name = defs[k].name})
                /\ ~SliceAcquires(text[k]) => k \notin close \cup rollback
           /\ Len(SelectSeq(issues, LAMBDA m : StartsWith(m, "Function '"))) =
                Cardinality(close) + Cardinality(rollback)

\* the case of the claim: create_dbsession_pg, insert, finally and .close()
\* but no except and no .rollback(): exactly the missing-rollback issue
C1_Witness ==
    /\ pc = "returned"
    /\ Len(FunctionDefs(tree)) = 1
    /\ LET text == Slices[1]
       IN /\ Contains(text, "create_dbsession_pg") /\ Contains(text, "insert")
          /\ Contains(text, "finally") /\ Contains(text, ".close()")
          /\ ~Contains(text, "except") /\ ~Contains(text, ".rollback()")
    /\ issues = <<RollbackMsg(FunctionDefs(tree)[1].name)>>

\* ---- C2
HasValidationIssue(node) == Count(issues, ValidationMsg(node.name)) > 0

HasJsonIssue(node) == Count(issues, JsonMsg(node.name)) > 0

\* C3 as claimed: for every endpoint the JSON issue is emitted iff the body
\* subtree holds no call of the plain name json or jsonify.
C3_AsClaimed ==
    RulesDone =>
        \A k \in 1..Len(FunctionDefs(tree)) :
            LET node == FunctionDefs(tree)[k]
            IN IsEndpointDef(node) =>
                (HasJsonIssue(node) <=> ~JsonCallIn(WalkAll(node.body)))

\* C3 amended: for every endpoint the JSON issue is emitted (once) iff the
\* whole FunctionDef subtree (decorators, parameter defaults and body, at any
\* depth) holds no Call whose callee is the plain name json or jsonify; a
\* call whose callee is an attribute access does not count.
C3_JsonScope ==
    RulesDone =>
        \A k \in 1..Len(FunctionDefs(tree)) :
            LET node == FunctionDefs(tree)[k]
            IN IsEndpointDef(node) =>
                Count(issues, JsonMsg(node.name)) =
                    (IF ~JsonCallIn(Walk(node)) THEN 1 ELSE 0)

C3_Witness ==
    /\ pc = "returned"
    /\ \E k \in 1..Len(FunctionDefs(tree)) :
        LET node == FunctionDefs(tree)[k]
        IN /\ IsEndpointDef(node)
           /\ ~JsonCallIn(WalkAll(node.body))
           /\ JsonCallIn(WalkAll(node.decorator_list))
           /\ ~HasJsonIssue(node)

\* ---- C4
EndpointMsgsOf(node) ==
    LET About(m) == m \in {MissingTryMsg(node.name), JsonMsg(node.name),
                           ValidationMsg(node.name)}
    IN SelectSeq(issues, About)

IfFirst(node) == node.body # <<>> /\ node.body[1].type = "If"

AnyEndpointMsg(m) == StartsWith(m, "Endpoint '")

IsFunctionNameMsg(m) == StartsWith(m, "Function name '")
IsVariableNameMsg(m) == StartsWith(m, "Variable name '")

BadFunctionName(n) == n.type = "FunctionDef" /\ ~is_snake_case(n.name)
BadPlainTarget(target) == target.type = "Name" /\ ~is_snake_case(target.id)

\* C5: once both naming passes have run, the number of function-name issues
\* is the number of FunctionDef nodes of the tree whose name fails the
\* classifier, and the number of variable-name issues is the number of
\* occurrences of a plain-name target of an Assign node, anywhere in the
\* tree, whose identifier fails it; tuple, list and attribute targets add
\* nothing, repeated names are counted each time.
C5_NamingCount ==
    pc \in {"check_endpoint_rules", "check_db_session_rules", "return", "returned"} =>
        /\ Len(SelectSeq(issues, IsFunctionNameMsg)) =
                Len(SelectSeq(Walk(tree), BadFunctionName))
        /\ Len(SelectSeq(issues, IsVariableNameMsg)) =
                Sum([k \in 1..Len(SelectSeq(Walk(tree), IsAssign)) |->
                        Len(SelectSeq(SelectSeq(Walk(tree), IsAssign)[k].targets,
                                      BadPlainTarget))])

\* a tuple target that holds an invalid name adds nothing, while a chained
\* assignment in the same tree is counted
C5_Witness ==
    /\ pc = "returned"
    /\ \E k \in 1..Len(Walk(tree)) :
        LET n == Walk(tree)[k]
        IN /\ n.type = "Assign"
           /\ n.targets[1].type = "Tuple"
           /\ n.targets[1].elts[1] = Name("A")
    /\ \E k \in 1..Len(Walk(tree)) :
        Walk(tree)[k].type = "Assign" /\ Len(Walk(tree)[k].targets) = 2
    /\ Count(issues, VariableNameMsg("A")) = 0
    /\ Len(SelectSeq(issues, IsVariableNameMsg)) = 2

\* ---- C6
ClaimedSnakeCase(s) ==
    /\ Len(s) >= 1
    /\ CharAt(s, 1) \in LowerChars \cup {"_"}
    /\ \A j \in 2..Len(s) : CharAt(s, j) \in LowerChars \cup DigitChars \cup {"_"}

\* C6: is_snake_case(S) is true iff S is non-empty, starts with a lowercase
\* letter or underscore, and every remaining character, the last included,
\* is a lowercase letter, a digit or an underscore.
C6_Classifier ==
    pc = "classified" => (verdict = TRUE <=> ClaimedSnakeCase(name_in))

\* ---- C7
Rank(m) ==
    CASE StartsWith(m, "Function name '") -> 1
      [] StartsWith(m, "Variable name '") -> 2
      [] StartsWith(m, "Endpoint '") -> 3
      [] StartsWith(m, "Function '") -> 4
      [] OTHER -> 0

IsPrefix(a, b) == Len(a) <= Len(b) /\ SubSeq(b, 1, Len(a)) = a

InPass ==
    pc \in {"check_function_names", "check_variable_names", "check_endpoint_rules",
            "check_db_session_rules", "return"}

GroupedByRule(found) ==
    \A a \in 1..Len(found) : \A b \in a..Len(found) :
        Rank(found[a]) >= 1 /\ Rank(found[a]) <= Rank(found[b])

\* C7: the sequence run_checks returns for a file has every function-name
\* issue before every variable-name issue, these before every endpoint
\* issue, these before every lifecycle issue; and every step of run_checks
\* leaves the issues appended so far as a prefix of the issues after it.
C7_IssueOrder ==
    /\ [](pc = "returned" => GroupedByRule(results[Len(results)]))
    /\ [][InPass => IsPrefix(issues, issues')]_vars

\* a file whose source order differs from the rule order: all four groups
C7_Witness ==
    /\ pc = "returned"
    /\ \A r \in 1..4 : \E k \in 1..Len(issues) : Rank(issues[k]) = r
    /\ tree.body[1].type = "Assign"

\* ---- C8
\* the issues of a file: the four passes over its tree and text
IssuesOf(d) ==
    FunctionNameIssues(Ast(d)) \o VariableNameIssues(Ast(d))
    \o EndpointIssues(Ast(d)) \o DbSessionIssues(Ast(d), Source(d))

ReportOf(d) ==
    IF IssuesOf(d) = <<>> THEN <<d.path \o " passed all checks.">>
    ELSE <<"Issues found in " \o d.path \o ":">>
         \o [k \in 1..Len(IssuesOf(d)) |-> "  " \o IssuesOf(d)[k]]

ReportsUpTo(n) == Concat([k \in 1..n |-> ReportOf(argv[k])])

AllParse == \A k \in 1..Len(argv) : Parses(argv[k])

\* C8: in a batch of one or more files that all parse, whenever the loop is
\* between files the output is the reports of the files so far, in argument
\* order, each "passed" iff the file has no issue; the batch never stops
\* early, and it exits with a non-zero status iff some file has an issue.
C8_BatchAggregation ==
    (Len(argv) >= 1 /\ AllParse) =>
        /\ pc # "crashed"
        /\ pc \in {"for", "end", "exited"} => stdout = ReportsUpTo(i)
        /\ pc \in {"end", "exited"} => i = Len(argv)
        /\ pc = "exited" =>
            /\ status \in {0, 1}
            /\ status # 0 <=> \E k \in 1..Len(argv) : IssuesOf(argv[k]) # <<>>

C8_Witness ==
    /\ pc = "exited"
    /\ Len(argv) = 3
    /\ AllParse
    /\ IssuesOf(argv[1]) # <<>>
    /\ IssuesOf(argv[3]) = <<>>
    /\ stdout[Len(stdout)] = argv[3].path \o " passed all checks."
    /\ status = 1

\* ---- C10
\* C10: a file that does not parse is never handed to a rule pass and gets no
\* issue sequence; the step that reads it ends the batch (the error is not
\* caught); at that point the output is the reports of the earlier files and
\* nothing else, and nothing is printed or processed afterwards.
C10_ParseErrorPropagates ==
    /\ []((i >= 1 /\ ~Parses(argv[i])) =>
            /\ pc \in {"review_file", "crashed"}
            /\ pc = "crashed" =>
                /\ issues = <<>> /\ results = <<>>
                /\ stdout = ReportsUpTo(i - 1)
                /\ status # 0)
    /\ [](pc = "crashed" => ~Parses(argv[i]))
    /\ [][(pc = "review_file" /\ ~Parses(argv[i])) => pc' = "crashed"]_vars
    /\ [][pc = "crashed" => (pc' = "crashed" /\ i' = i /\ stdout' = stdout)]_vars

C10_Witness ==
    /\ pc = "crashed"
    /\ i = 2
    /\ Len(argv) = 3
    /\ IssuesOf(argv[1]) # <<>>
    /\ stdout = ReportOf(argv[1])

\* ---- C9
\* C9: every call of run_checks on one reviewer returns the same sequence as
\* the first call.
C9_StatelessPerCall ==
    \A k \in 1..Len(results) : results[k] = results[1]

====
